---- MODULE Spec2Model ----
(***************************************************************************)
(* CTV payment pool: the run of main() (src/src/main.rs) against a Bitcoin *)
(* node, with the wallet helpers of src/src/rpc_helper.rs.                 *)
(*                                                                         *)
(* config.rs, pools.rs and ctv_scripts.rs are not part of the sources at   *)
(* hand.  Their constants are configuration drawn in Init; their functions *)
(* (create_exit_pool, create_all_pools, create_entry_pool_withdraw_hashes, *)
(* create_pool_address, process_pool_spend) are modelled from the          *)
(* specification text, sections 3, 4 and 8, at the call sites main.rs      *)
(* fixes (arguments, order of calls, the key of the entry pool).           *)
(***************************************************************************)
EXTENDS Integers, Sequences, FiniteSets, TLC

\* ------------------------------------------------------------- bounds
MaxUsers == 5
MaxAmount == 3
MaxFee == 1
MaxDust == 1
MaxUtxos == 2
MaxEstFee == 1

VARIABLES
  POOL_USERS,          \* config: number of participants
  AMOUNT_PER_USER,     \* config: share of one participant
  FEE_AMOUNT,          \* config: fixed fee
  DUST_AMOUNT,         \* config: dust limit
  pc,                  \* position of main()
  addresses_requested, \* number of get_new_address / get_raw_change_address calls
  withdraw_addresses,  \* Vec<Address>, participant u at index u+1
  unspent,             \* rpc_helper.rs:32, the amounts of the coins list_unspent reported
  total_input,         \* rpc_helper.rs:36
  fee,                 \* rpc_helper.rs:61, bound again at main.rs:56
  pools,               \* Vec<HashMap<Vec<usize>, TaprootSpendInfo>>, depth d at index d+1
  rpc_log,             \* transactions handed to sign + send_raw_transaction, with the answer
  chain,               \* transactions the node accepted; a txid is the position here
  init_wallets_txid,   \* main.rs:56
  pool_funding_txid,   \* main.rs:114
  current_txid,        \* main.rs:128, Settlement State: the outpoint's transaction
  i                    \* main.rs:129, Settlement State: participants 0..i-1 have exited

vars == <<POOL_USERS, AMOUNT_PER_USER, FEE_AMOUNT, DUST_AMOUNT, pc,
          addresses_requested, withdraw_addresses, unspent, total_input, fee,
          pools, rpc_log, chain,
          init_wallets_txid, pool_funding_txid, current_txid, i>>

config_vars == <<POOL_USERS, AMOUNT_PER_USER, FEE_AMOUNT, DUST_AMOUNT>>

\* The locals of send_funding_transaction the run keeps.
wallet_vars == <<unspent, total_input, fee>>

\* ------------------------------------------------------------- values
NoTxid == 0

\* rpc_helper.rs:60, estimate_smart_fee answering without a fee rate (None);
\* also the fee before it is estimated
NoFeeRate == -1

TX_VERSION == "TX_VERSION"

LockTimeZero == "LockTime::ZERO"

ENABLE_RBF_NO_LOCKTIME == "Sequence::ENABLE_RBF_NO_LOCKTIME"

CtvSequence == "ctv_sequence"

\* The address the node hands out at the n-th request.
WalletAddress(n) == <<"wallet", n>>

\* config.fee_anchor_addr
anchor_addr == <<"fee_anchor">>

mining_address == WalletAddress(1)

Participants == 0 .. (POOL_USERS - 1)

Range(s) == {s[k] : k \in 1 .. Len(s)}

RECURSIVE SumValues(_)
SumValues(outs) ==
  IF outs = <<>> THEN 0
  ELSE outs[1].value + SumValues(Tail(outs))

RECURSIVE SumSeq(_)
SumSeq(s) == IF s = <<>> THEN 0 ELSE s[1] + SumSeq(Tail(s))

TxOut(v, script) == [value |-> v, script_pubkey |-> script]

TxIn(txid, vout, seqno) == [previous_output |-> <<txid, vout>>, sequence |-> seqno]

Transaction(ins, outs) ==
  [version |-> TX_VERSION, lock_time |-> LockTimeZero, input |-> ins, output |-> outs]

\* ------------------------------------------------------------- the node
\* The output at an outpoint of the chain the model keeps (the wallet's
\* earlier coins are outputs of transactions -1, -2, .. outside it).
OutputAt(op) ==
  IF op[1] \in 1 .. Len(chain) /\ op[2] + 1 \in 1 .. Len(chain[op[1]].output)
  THEN chain[op[1]].output[op[2] + 1]
  ELSE TxOut(0, <<"none">>)

SpentOutpoints ==
  UNION {{chain[t].input[k].previous_output : k \in 1 .. Len(chain[t].input)}
           : t \in 1 .. Len(chain)}

PoolAmount == AMOUNT_PER_USER * POOL_USERS

\* ------------------------------------------------------------- main()
Init ==
  /\ POOL_USERS \in 2 .. MaxUsers
  /\ AMOUNT_PER_USER \in 1 .. MaxAmount
  /\ FEE_AMOUNT \in 1 .. MaxFee
  /\ DUST_AMOUNT \in 1 .. MaxDust
  /\ pc = "check_config"
  /\ addresses_requested = 0
  /\ withdraw_addresses = <<>>
  /\ unspent = <<>>
  /\ total_input = 0
  /\ fee = NoFeeRate
  /\ pools = <<>>
  /\ rpc_log = <<>>
  /\ chain = <<>>
  /\ init_wallets_txid = NoTxid
  /\ pool_funding_txid = NoTxid
  /\ current_txid = NoTxid
  /\ i = 0

\* main.rs:21
TooFewUsers == POOL_USERS < 3

\* Mutant: an amount equal to fee + dust passes.
AmountTooSmallStrict == AMOUNT_PER_USER < FEE_AMOUNT + DUST_AMOUNT

\* main.rs:25
AmountTooSmall == AMOUNT_PER_USER <= FEE_AMOUNT + DUST_AMOUNT

\* main.rs:21-27
CheckConfig ==
  /\ pc = "check_config"
  /\ pc' = IF TooFewUsers \/ AmountTooSmall THEN "panic_config" ELSE "get_mining_address"
  /\ UNCHANGED <<config_vars, wallet_vars, addresses_requested, withdraw_addresses, pools, rpc_log,
                 chain, init_wallets_txid, pool_funding_txid, current_txid, i>>

\* The ways main.rs:29-41 can end.  Every `?` there returns the error from
\* main: the connection (line 30), get_new_address (line 33), the network
\* of the address (line 34), get_balance of the regtest build (line 37),
\* the fee anchor address (line 41).  The value is the number of addresses
\* the node has handed out by then.
MiningAddressOutcomes ==
  [get_withdraw_addresses |-> 1,
   error_bitcoin_rpc |-> 0,
   error_get_new_address |-> 0,
   error_require_network |-> 1,
   error_get_balance |-> 1,
   error_anchor_addr |-> 1]

\* main.rs:29-41
GetMiningAddress ==
  /\ pc = "get_mining_address"
  /\ \E outcome \in DOMAIN MiningAddressOutcomes :
       /\ pc' = outcome
       /\ addresses_requested' = addresses_requested + MiningAddressOutcomes[outcome]
  /\ UNCHANGED <<config_vars, wallet_vars, withdraw_addresses, pools, rpc_log, chain,
                 init_wallets_txid, pool_funding_txid, current_txid, i>>

\* main.rs:47-54: POOL_USERS calls of get_new_address, one after the other.
\* A call that fails, or an address of another network, panics at the
\* unwrap of line 50 or 52 with the addresses handed out so far; the Vec is
\* bound only when all of them are there.
GetWithdrawAddresses ==
  /\ pc = "get_withdraw_addresses"
  /\ \E handed_out \in 0 .. POOL_USERS, completed \in BOOLEAN :
       /\ completed => handed_out = POOL_USERS
       /\ addresses_requested' = addresses_requested + handed_out
       /\ IF completed
          THEN /\ withdraw_addresses' =
                    [u \in 1 .. POOL_USERS |-> WalletAddress(addresses_requested + u)]
               /\ pc' = "send_funding_transaction"
          ELSE /\ withdraw_addresses' = withdraw_addresses
               /\ pc' = "panic_withdraw_address"
  /\ UNCHANGED <<config_vars, wallet_vars, pools, rpc_log, chain,
                 init_wallets_txid, pool_funding_txid, current_txid, i>>

\* ------------------------------------------------------------- rpc_helper.rs
\* rpc_helper.rs:61, the fee of a ~250 vbyte transaction at the estimated rate
FeeVBytes == 250

EstimatedFee(fee_rate) == fee_rate * FeeVBytes

\* The amounts list_unspent may report for one coin (any amount, in the
\* code): the amount of the pool, or twice that plus the fee at the highest
\* rate.  Up to MaxUtxos of them make totals short of what the transaction
\* needs, equal to it, above it, and above it by exactly the amount of the
\* pool, which leaves a change output of the value rpc_helper.rs:121 looks
\* for.
UtxoAmounts ==
  {AMOUNT_PER_USER * POOL_USERS,
   2 * AMOUNT_PER_USER * POOL_USERS + EstimatedFee(MaxEstFee)}

\* rpc_helper.rs:35-56
FundingInputs(coins) ==
  [k \in 1 .. Len(coins) |-> TxIn(-k, 0, ENABLE_RBF_NO_LOCKTIME)]

\* rpc_helper.rs:36-58
TotalInput(coins) == SumSeq(coins)

\* rpc_helper.rs:27-28, the two change addresses, the last two handed out
change_address == WalletAddress(addresses_requested - 1)

change_address_2 == WalletAddress(addresses_requested)

\* rpc_helper.rs:63
AmountToSend(est_fee) == PoolAmount + est_fee

\* rpc_helper.rs:64
Change(total, est_fee) == total - AmountToSend(est_fee)

\* rpc_helper.rs:70-86
FundingTransaction(coins, est_fee) ==
  Transaction(FundingInputs(coins),
              << TxOut(AmountToSend(est_fee), change_address),
                 TxOut(Change(TotalInput(coins), est_fee), change_address_2) >>)

LogEntry(kind, tx, accepted) == [kind |-> kind, tx |-> tx, accepted |-> accepted]

\* The ways rpc_helper.rs:27-32 can panic: the unwrap of the first change
\* address (line 27), of the second (line 28), of list_unspent (line 32).
\* The value is the number of change addresses handed out by then.
ListUnspentPanics ==
  [panic_change_address |-> 0,
   panic_change_address_2 |-> 1,
   panic_list_unspent |-> 2]

\* rpc_helper.rs:27-32, the first calls of send_funding_transaction
\* (main.rs:56): two change addresses, then the wallet's unspent coins.
ListUnspent ==
  /\ pc = "send_funding_transaction"
  /\ \/ /\ addresses_requested' = addresses_requested + 2
        /\ \E n \in 0 .. MaxUtxos : \E coins \in [1 .. n -> UtxoAmounts] :
             unspent' = coins
        /\ pc' = "build_funding_transaction"
     \/ \E outcome \in DOMAIN ListUnspentPanics :
          /\ addresses_requested' = addresses_requested + ListUnspentPanics[outcome]
          /\ unspent' = unspent
          /\ pc' = outcome
  /\ UNCHANGED <<config_vars, total_input, fee, withdraw_addresses, pools, rpc_log, chain,
                 init_wallets_txid, pool_funding_txid, current_txid, i>>

\* rpc_helper.rs:35-99, the rest of send_funding_transaction; main.rs:56
\* binds the returned txid.  The loop of line 38 consumes the list of coins.
\* The estimate that fails or comes without a rate panics at the unwraps of
\* line 60.  Amount is unsigned: the subtraction of line 64 panics when it
\* would go below zero, before the check of line 66 is reached.  A failed
\* signing panics at the unwrap of line 93 with nothing sent, a refused
\* broadcast at the unwrap of line 96.  The block generation of the regtest feature
\* (main.rs:36-39, 59-60, 120-121) changes nothing the run reads.
SendFundingTransaction ==
  /\ pc = "build_funding_transaction"
  /\ unspent' = <<>>
  /\ total_input' = TotalInput(unspent)
  /\ \E fee_rate \in NoFeeRate .. MaxEstFee, signed \in BOOLEAN, accepted \in BOOLEAN :
       LET est_fee == EstimatedFee(fee_rate)
           tx == FundingTransaction(unspent, est_fee)
       IN  IF fee_rate = NoFeeRate
           THEN /\ pc' = "panic_no_fee_rate"
                /\ UNCHANGED <<fee, rpc_log, chain, init_wallets_txid>>
           ELSE /\ fee' = est_fee
                /\ IF TotalInput(unspent) < AmountToSend(est_fee)
                   THEN /\ pc' = "panic_amount_subtraction"
                        /\ UNCHANGED <<rpc_log, chain, init_wallets_txid>>
                   ELSE IF Change(TotalInput(unspent), est_fee) < 0
                   THEN /\ pc' = "panic_not_enough_input"
                        /\ UNCHANGED <<rpc_log, chain, init_wallets_txid>>
                   ELSE IF ~signed
                   THEN /\ pc' = "panic_sign_funding"
                        /\ UNCHANGED <<rpc_log, chain, init_wallets_txid>>
                   ELSE /\ rpc_log' = Append(rpc_log, LogEntry("init_wallet", tx, accepted))
                        /\ IF accepted
                           THEN /\ chain' = Append(chain, tx)
                                /\ init_wallets_txid' = Len(chain) + 1
                                /\ pc' = "create_exit_pool"
                           ELSE /\ pc' = "panic_send_funding"
                                /\ UNCHANGED <<chain, init_wallets_txid>>
  /\ UNCHANGED <<config_vars, addresses_requested, withdraw_addresses, pools,
                 pool_funding_txid, current_txid, i>>

\* ------------------------------------------------------------- covenant engine
\* Template Commitment Hasher (spec 4.1): the digest fixes the version, the
\* lock time, the number of inputs, their sequence numbers, the number of
\* outputs, the outputs and the index of the spending input; it does not
\* cover the outpoints spent.  Equal committed fields, equal digest.
TemplateHash(tx, input_index) ==
  [version |-> tx.version,
   lock_time |-> tx.lock_time,
   input_count |-> Len(tx.input),
   sequences |-> [k \in 1 .. Len(tx.input) |-> tx.input[k].sequence],
   outputs_count |-> Len(tx.output),
   outputs |-> tx.output,
   input_index |-> input_index]

\* The shape a covenant transaction has: one input, the given outputs.
CovenantTransaction(outpoint, outs) ==
  Transaction(<<TxIn(outpoint[1], outpoint[2], CtvSequence)>>, outs)

\* Covenant Script Builder (spec 4.2): push the commitment, check, drop, accept.
CtvScript(digest) == <<digest, "OP_CHECKTEMPLATEVERIFY", "OP_DROP", "OP_TRUE">>

ScriptDigest(script) == script[1]

\* Taproot Node Compiler (spec 4.3), create_pool_address: the spend info is
\* the ordered leaves under the fixed unspendable internal key.
TaprootSpendInfo(leaves) == [internal_key |-> "unspendable", leaves |-> leaves]

\* Address::p2tr_tweaked(spend_info.output_key(), network), main.rs:110
P2tr(spend_info) == <<"p2tr", spend_info.internal_key, spend_info.leaves>>

WithdrawAddress(u) == withdraw_addresses[u + 1]

\* ------------------------------------------------------------- keys and orders
RECURSIVE Paths(_)
\* The exit paths of length k: k distinct participants, in order.
Paths(k) ==
  IF k = 0 THEN {<<>>}
  ELSE UNION {{Append(p, u) : u \in Participants \ Range(p)} : p \in Paths(k - 1)}

\* The exit paths that still have a step to take, by their length: up to
\* N-2 exits.
StepPathsByLength == [k \in 0 .. (POOL_USERS - 2) |-> Paths(k)]

Remaining(path) == Participants \ Range(path)

RECURSIVE SortAsc(_)
SortAsc(S) ==
  IF S = {} THEN <<>>
  ELSE LET m == CHOOSE x \in S : \A y \in S : x <= y
       IN  <<m>> \o SortAsc(S \ {m})

\* ------------------------------------------------------------- Pool Tree Builder
\* The value the builder commits as the input of a node with k exits behind
\* it: every step pays out one share and burns the fee (spec 8, conservation).
CommittedInputValue(k) == AMOUNT_PER_USER * (POOL_USERS - k) - k * FEE_AMOUNT

\* Outputs of a withdrawal: the exiter's payment, the fee anchor, the rest to
\* the child node (spec 4.5 step 3).
WithdrawOutputs(u, child_address, continuation) ==
  << TxOut(AMOUNT_PER_USER - FEE_AMOUNT, WithdrawAddress(u)),
     TxOut(FEE_AMOUNT, anchor_addr),
     TxOut(continuation, child_address) >>

\* Outputs of the terminal step: both remaining participants are paid, then
\* the fee anchor (spec 4.4, terminal layer).
ExitOutputs(u, other, in_value) ==
  << TxOut(AMOUNT_PER_USER - FEE_AMOUNT, WithdrawAddress(u)),
     TxOut(in_value - AMOUNT_PER_USER - FEE_AMOUNT, WithdrawAddress(other)),
     TxOut(FEE_AMOUNT, anchor_addr) >>

\* The commitment to a transaction that does not exist yet.
CommitOutputs(outs) == TemplateHash(CovenantTransaction(<<NoTxid, 0>>, outs), 0)

\* A terminal node: one leaf per order of the last two exits.
ExitPoolNode(path) ==
  LET rem == SortAsc(Remaining(path))
  IN  TaprootSpendInfo(
        [k \in 1 .. 2 |->
           CtvScript(CommitOutputs(
             ExitOutputs(rem[k], rem[3 - k], CommittedInputValue(POOL_USERS - 2))))])

\* create_exit_pool(&withdraw_addresses, &anchor_addr), main.rs:71
create_exit_pool == [path \in Paths(POOL_USERS - 2) |-> ExitPoolNode(path)]

\* The next exiters of the node `path`: the participants by which a key of
\* the child layer extends it.
NextExiters(children, path) ==
  {c[Len(c)] : c \in {c \in DOMAIN children : SubSeq(c, 1, Len(c) - 1) = path}}

\* The order of the leaves inside a node: ascending participant index
\* (spec 4.4, determinism/ordering).
LeafOrder(exiters) == SortAsc(exiters)

WithdrawLeaves(children, path, order, continuation) ==
  [k \in 1 .. Len(order) |->
     CtvScript(CommitOutputs(
       WithdrawOutputs(order[k], P2tr(children[Append(path, order[k])]), continuation)))]

\* A node above the terminal layer: one leaf per participant not in its path.
PoolNode(children, path, continuation) ==
  TaprootSpendInfo(
    WithdrawLeaves(children, path, LeafOrder(NextExiters(children, path)), continuation))

\* The layer of the nodes with k exits behind them, over the layer with k+1.
PoolLayer(children, k) ==
  [path \in Paths(k) |-> PoolNode(children, path, CommittedInputValue(k + 1))]

\* Mutant: every pass reads the terminal layer.
FrontLayerLeaves(built, front) == built[1]

\* main.rs:78, the layer a pass of create_all_pools takes: the front-th from
\* the front of the Vec, the layer the pass before it added.
FrontLayer(built, front) == built[front]

RECURSIVE BuildPools(_, _)
\* create_all_pools(&withdraw_addresses, &anchor_addr, &config, &mut pools),
\* main.rs:78-79: the layers between the terminal layer and the entry pool.
\* The layers are taken from the front of the Vec, the terminal layer first,
\* one per pass; the layer made of each is added to the back, and is the
\* one the next pass takes.
BuildPools(built, front) ==
  IF front > POOL_USERS - 3 THEN built
  ELSE BuildPools(Append(built, PoolLayer(FrontLayer(built, front),
                                          POOL_USERS - 2 - front)),
                  front + 1)

\* Mutant: the entry pool is handed the whole pool instead of what remains
\* after the first exit.
EntryPoolAmountWholePool == AMOUNT_PER_USER * POOL_USERS

\* main.rs:97, the amount handed to create_entry_pool_withdraw_hashes
EntryPoolAmount == AMOUNT_PER_USER * (POOL_USERS - 1)

\* create_entry_pool_withdraw_hashes + create_pool_address, main.rs:92-99
EntryPool(children, amount) == PoolNode(children, <<>>, amount - FEE_AMOUNT)

\* main.rs:101, the key of the entry pool in its layer
RootKey == <<0>>

\* Mutant: the entry pool is built over the first layer pushed, not the last.
EntryPoolChildrenFirst == pools[1]

\* main.rs:94, pools.last(): the layer the entry pool fans out to
EntryPoolChildren == pools[Len(pools)]

\* main.rs:69-73; an Err of create_exit_pool leaves main through the `?` of
\* line 71 before anything is pushed.
CreateExitPool ==
  /\ pc = "create_exit_pool"
  /\ \/ /\ pools' = Append(pools, create_exit_pool)
        /\ pc' = "create_all_pools"
     \/ /\ pools' = pools
        /\ pc' = "error_create_exit_pool"
  /\ UNCHANGED <<config_vars, wallet_vars, addresses_requested, withdraw_addresses, rpc_log, chain,
                 init_wallets_txid, pool_funding_txid, current_txid, i>>

\* main.rs:79.  create_all_pools returns nothing and the call has no `?`: an
\* error inside it can only abort the run, with no tree handed on.
CreateAllPools ==
  /\ pc = "create_all_pools"
  /\ \/ /\ pools' = BuildPools(pools, 1)
        /\ pc' = "create_entry_pool"
     \/ /\ pools' = pools
        /\ pc' = "panic_create_all_pools"
  /\ UNCHANGED <<config_vars, wallet_vars, addresses_requested, withdraw_addresses, rpc_log, chain,
                 init_wallets_txid, pool_funding_txid, current_txid, i>>

\* main.rs:92-102; an Err of create_pool_address leaves main through the `?`
\* of line 99 before the entry pool is pushed.
CreateEntryPool ==
  /\ pc = "create_entry_pool"
  /\ \/ /\ pools' = Append(pools, [key \in {RootKey} |->
                                     EntryPool(EntryPoolChildren, EntryPoolAmount)])
        /\ pc' = "simulate_psbt_signing"
     \/ /\ pools' = pools
        /\ pc' = "error_create_pool_address"
  /\ UNCHANGED <<config_vars, wallet_vars, addresses_requested, withdraw_addresses, rpc_log, chain,
                 init_wallets_txid, pool_funding_txid, current_txid, i>>

\* ------------------------------------------------------------- funding the pool
\* Iterator::position: the index (from 0) of the first output of that value,
\* -1 for None.
Position(outs, v) ==
  IF \E k \in 1 .. Len(outs) : outs[k].value = v
  THEN (CHOOSE k \in 1 .. Len(outs) :
          /\ outs[k].value = v
          /\ \A j \in 1 .. (k - 1) : outs[j].value # v) - 1
  ELSE -1

\* Mutant: the pool output also carries the fixed fee.
PoolFundingValuePlusFee == AMOUNT_PER_USER * POOL_USERS + FEE_AMOUNT

\* rpc_helper.rs:134-137
PoolFundingValue == AMOUNT_PER_USER * POOL_USERS

\* rpc_helper.rs:125-144
PoolFundingTransaction(previous_txid, vout, pool_address) ==
  Transaction(<<TxIn(previous_txid, vout, ENABLE_RBF_NO_LOCKTIME)>>,
              <<TxOut(PoolFundingValue, pool_address)>>)

\* What the node requires of any transaction it accepts: every input is an
\* unspent output and the outputs do not exceed the inputs.
SpendsUnspent(tx) ==
  /\ Len(tx.input) > 0
  /\ \A k \in 1 .. Len(tx.input) :
       LET op == tx.input[k].previous_output
       IN  /\ op \notin SpentOutpoints
           /\ op[1] < 0 \/ (op[1] \in 1 .. Len(chain) /\
                                  op[2] + 1 \in 1 .. Len(chain[op[1]].output))

\* Mutant: the pool is funded to the wallet's own first address.
pool_0_addr_wallet == mining_address

\* The address of the entry pool, main.rs:110
pool_0_addr == P2tr(pools[Len(pools)][RootKey])

\* Mutant: the error is swallowed and the loop goes on to the next index.
AfterRejectionContinue(kind, k) == [i |-> k + 1, pc |-> "process_pool_spend"]

\* The `?` of main.rs:114 and main.rs:142: a rejected broadcast ends the run
\* with the error; the loop index is left as it was.
AfterRejection(kind, k) ==
  [i |-> k,
   pc |-> IF kind = "pool_funding" THEN "error_pool_funding" ELSE "error_settlement"]

\* simulate_psbt_signing, rpc_helper.rs:102-158, called at main.rs:114; on
\* success main.rs:128 starts the settlement from its transaction.  A failed
\* get_raw_transaction panics at the unwrap of line 112, an output not found
\* at line 122, a failed signing at line 151, each with nothing sent; only a
\* refused broadcast returns the error (line 154).
SimulatePsbtSigning ==
  /\ pc = "simulate_psbt_signing"
  /\ LET previous_tx == chain[init_wallets_txid]
         vout == Position(previous_tx.output, PoolAmount)
         tx == PoolFundingTransaction(init_wallets_txid, vout, pool_0_addr)
     IN  \E fetched \in BOOLEAN, signed \in BOOLEAN, accepted \in BOOLEAN :
           IF ~fetched
           THEN /\ pc' = "panic_get_raw_transaction"
                /\ UNCHANGED <<rpc_log, chain, pool_funding_txid, current_txid>>
           ELSE IF vout < 0
           THEN /\ pc' = "panic_no_funding_output"
                /\ UNCHANGED <<rpc_log, chain, pool_funding_txid, current_txid>>
           ELSE IF ~signed
           THEN /\ pc' = "panic_sign_pool_funding"
                /\ UNCHANGED <<rpc_log, chain, pool_funding_txid, current_txid>>
           ELSE
                /\ accepted => SpendsUnspent(tx)
                /\ rpc_log' = Append(rpc_log, LogEntry("pool_funding", tx, accepted))
                /\ IF accepted
                   THEN /\ chain' = Append(chain, tx)
                        /\ pool_funding_txid' = Len(chain) + 1
                        /\ current_txid' = Len(chain) + 1
                        /\ pc' = "process_pool_spend"
                   ELSE /\ pc' = AfterRejection("pool_funding", i).pc
                        /\ UNCHANGED <<chain, pool_funding_txid, current_txid>>
  /\ UNCHANGED <<config_vars, wallet_vars, addresses_requested, withdraw_addresses, pools,
                 init_wallets_txid, i>>

\* ------------------------------------------------------------- Spend Path Resolver
\* The depth of the node reached by an exit path (spec 3: depth 0 is the
\* terminal layer, the root is at depth N-2).
DepthOf(path) == POOL_USERS - 2 - Len(path)

\* The key under which the node of an exit path is stored.
NodeKey(path) == IF path = <<>> THEN RootKey ELSE path

NodeExists(path) ==
  /\ DepthOf(path) + 1 \in 1 .. Len(pools)
  /\ NodeKey(path) \in DOMAIN pools[DepthOf(path) + 1]

LookupNode(path) == pools[DepthOf(path) + 1][NodeKey(path)]

\* The position of the leaf of exiter u in the node of `path`.
LeafIndex(path, u) == Cardinality({v \in Remaining(path) : v <= u})

\* Step 3 of the resolver: the outputs of the step `u exits after path`,
\* spending an output of value in_value.
ResolverOutputs(path, u, in_value) ==
  IF DepthOf(path) = 0
  THEN ExitOutputs(u, CHOOSE v \in Remaining(path) : v # u, in_value)
  ELSE WithdrawOutputs(u, P2tr(pools[DepthOf(path)][Append(path, u)]),
                       in_value - AMOUNT_PER_USER - FEE_AMOUNT)

ResolverTransaction(path, u, outpoint, in_value) ==
  CovenantTransaction(outpoint, ResolverOutputs(path, u, in_value))

\* Step 4: the selected leaf script and the spend info it is proved against.
ResolverWitness(path, u) ==
  [script |-> LookupNode(path).leaves[LeafIndex(path, u)],
   spend_info |-> LookupNode(path)]

\* The consensus rule of a script-path spend of a covenant output.
CovenantSatisfied(tx, witness) ==
  /\ Len(tx.input) = 1
  /\ OutputAt(tx.input[1].previous_output).script_pubkey = P2tr(witness.spend_info)
  /\ witness.script \in Range(witness.spend_info.leaves)
  /\ TemplateHash(tx, 0) = ScriptDigest(witness.script)

\* Mutant: the loop stops one step early.
LastSpendIndexShort == POOL_USERS - 3

\* Mutant: the loop takes one step more than the tree has layers.
LastSpendIndexLong == POOL_USERS - 1

\* main.rs:129, the last index of the settlement loop
LastSpendIndex == POOL_USERS - 2

\* The exits before step k of main's loop: participants 0 .. k-1, in order
\* (main.rs:123-126).
ExitedPath(k) == [j \in 1 .. k |-> j - 1]

\* The output of the previous step that holds the pool: the only output of
\* the pool funding transaction, the continuation output afterwards.
PoolVout(k) == IF k = 0 THEN 0 ELSE 2

\* Mutant: the loop keeps the transaction id it started with.
NextTxidStale(txid, accepted_txid) == txid

\* The transaction id the loop carries after a step, main.rs:133
NextTxid(txid, accepted_txid) == accepted_txid

\* process_pool_spend, main.rs:129-144: one step of the settlement loop.
ProcessPoolSpend ==
  /\ pc = "process_pool_spend"
  /\ i <= LastSpendIndex
  /\ LET path == ExitedPath(i)
         outpoint == <<current_txid, PoolVout(i)>>
     IN  IF ~(NodeExists(path) /\ i \in Remaining(path))
         THEN /\ pc' = "panic_resolution"
              /\ UNCHANGED <<rpc_log, chain, current_txid, i>>
         ELSE LET tx == ResolverTransaction(path, i, outpoint, OutputAt(outpoint).value)
                  witness == ResolverWitness(path, i)
              IN  \E accepted \in BOOLEAN :
                    /\ accepted => (SpendsUnspent(tx) /\ CovenantSatisfied(tx, witness))
                    /\ rpc_log' = Append(rpc_log, LogEntry("settlement", tx, accepted))
                    /\ IF accepted
                       THEN /\ chain' = Append(chain, tx)
                            /\ current_txid' = NextTxid(current_txid, Len(chain) + 1)
                            /\ i' = i + 1
                            /\ pc' = IF i + 1 > LastSpendIndex
                                     THEN "done" ELSE "process_pool_spend"
                       ELSE /\ pc' = AfterRejection("settlement", i).pc
                            /\ i' = AfterRejection("settlement", i).i
                            /\ UNCHANGED <<chain, current_txid>>
  /\ UNCHANGED <<config_vars, wallet_vars, addresses_requested, withdraw_addresses, pools,
                 init_wallets_txid, pool_funding_txid>>

Next ==
  \/ CheckConfig
  \/ GetMiningAddress
  \/ GetWithdrawAddresses
  \/ ListUnspent
  \/ SendFundingTransaction
  \/ CreateExitPool
  \/ CreateAllPools
  \/ CreateEntryPool
  \/ SimulatePsbtSigning
  \/ ProcessPoolSpend

Spec == Init /\ [][Next]_vars

\* ------------------------------------------------------------- the built tree
TreeBuilt == Len(pools) = POOL_USERS - 1

\* The exit path a stored key stands for: the entry pool's key stands for
\* the empty path.
PathOfKey(d, key) == IF d = POOL_USERS - 2 THEN <<>> ELSE key

\* The stored nodes, as <<depth, key>>.
StoredNodes ==
  UNION {{<<d, key>> : key \in DOMAIN pools[d + 1]} : d \in 0 .. (Len(pools) - 1)}

\* The template committed by the leaf of exiter u in the node of `path`.
CommittedTemplate(path, u) == ScriptDigest(LookupNode(path).leaves[LeafIndex(path, u)])

\* The value of the output a node is spent from: the pool funding output for
\* the root, the continuation its parent commits for any other node.
NodeInputValue(path) ==
  IF path = <<>> THEN PoolFundingValue
  ELSE CommittedTemplate(SubSeq(path, 1, Len(path) - 1), path[Len(path)]).outputs[3].value

\* The settlement transactions handed to the node, in order.
IsSettlement(e) == e.kind = "settlement"

SettlementLog == SelectSeq(rpc_log, IsSettlement)

\* ------------------------------------------------------------- claims

\* C1 (commitment soundness): in the built tree, for every stored node and
\* every participant u not in its path, the transaction the resolver
\* constructs for "u exits here" - whatever outpoint it spends - has a
\* template hash equal to the digest in the leaf the resolver selects for u;
\* and every settlement transaction handed to the node hashes to a digest of
\* a leaf of the node its step started from.
C1_CommitmentSoundness ==
  /\ TreeBuilt =>
       \A n \in StoredNodes :
         LET path == PathOfKey(n[1], n[2])
             in_value == NodeInputValue(path)
         IN  \A u \in Remaining(path) :
               LET outs == ResolverOutputs(path, u, in_value)
                   digest == ScriptDigest(ResolverWitness(path, u).script)
               IN  \A outpoint \in {<<1, 0>>, <<2, 2>>} :
                     TemplateHash(CovenantTransaction(outpoint, outs), 0) = digest
  /\ \A k \in 1 .. Len(SettlementLog) :
       TemplateHash(SettlementLog[k].tx, 0) = CommittedTemplate(ExitedPath(k - 1), k - 1)

\* C1 witness: a pool of four, fully built, two settlement steps accepted.
C1_Witness ==
  /\ TreeBuilt
  /\ POOL_USERS = 4
  /\ i = 2
  /\ Len(SettlementLog) = 2
  /\ SettlementLog[2].accepted

\* C4 (conservation): in the built tree, at every stored node and for every
\* leaf of it, the outputs of the committed transaction add up to the node's
\* input value minus FEE_AMOUNT, where the root's input value is
\* AMOUNT_PER_USER * POOL_USERS and any other node's is the continuation value
\* its parent commits.
C4_Conservation ==
  TreeBuilt =>
    /\ NodeInputValue(<<>>) = AMOUNT_PER_USER * POOL_USERS
    /\ \A n \in StoredNodes :
         LET path == PathOfKey(n[1], n[2])
         IN  \A k \in 1 .. Len(pools[n[1] + 1][n[2]].leaves) :
               SumValues(ScriptDigest(pools[n[1] + 1][n[2]].leaves[k]).outputs)
                 = NodeInputValue(path) - FEE_AMOUNT

\* C4 witness: a built tree with a layer between the root and the terminal
\* layer, whose root has a leaf per participant.
C4_Witness ==
  /\ TreeBuilt
  /\ POOL_USERS = 4
  /\ Len(pools[3][RootKey].leaves) = 4
  /\ Len(pools[2][<<1>>].leaves) = 3

\* C5 (rejection of invalid configuration): with fewer than 3 participants, or
\* a per-user amount of at most fee + dust, the run never gets past its
\* configuration check: no pool node is built, no address is requested, no
\* transaction is handed to the node or accepted by it.
C5_InvalidConfigRejected ==
  (POOL_USERS < 3 \/ AMOUNT_PER_USER <= FEE_AMOUNT + DUST_AMOUNT) =>
    /\ pc \in {"check_config", "panic_config"}
    /\ pools = <<>>
    /\ addresses_requested = 0
    /\ withdraw_addresses = <<>>
    /\ rpc_log = <<>>
    /\ chain = <<>>

\* C5 witness: three participants whose amount equals fee + dust, rejected.
C5_Witness ==
  /\ pc = "panic_config"
  /\ POOL_USERS = 3
  /\ AMOUNT_PER_USER = FEE_AMOUNT + DUST_AMOUNT

\* A committed template is terminal when none of its outputs pays a pool node.
IsTerminalTemplate(t) ==
  \A k \in 1 .. Len(t.outputs) : t.outputs[k].script_pubkey[1] # "p2tr"

\* C2 (tree coverage): in the built tree, for every exit path of at most N-2
\* distinct participants (the prefixes of the permutations that still have a
\* step to take) the node of that path exists and holds exactly one leaf per
\* remaining participant, the leaf of u paying u first and, above the
\* terminal layer, continuing to the node of the path extended by u; and
\* every stored node is the node of such a path.
C2_TreeCoverage ==
  TreeBuilt =>
    LET paths == StepPathsByLength
        nodes == UNION {{<<DepthOf(path), NodeKey(path)>> : path \in paths[k]} :
                          k \in 0 .. (POOL_USERS - 2)}
    IN  /\ \A k \in 0 .. (POOL_USERS - 2) : \A path \in paths[k] :
             /\ NodeExists(path)
             /\ Len(LookupNode(path).leaves) = Cardinality(Remaining(path))
             /\ \A u \in Remaining(path) :
                  LET t == CommittedTemplate(path, u)
                  IN  /\ t.outputs[1].script_pubkey = WithdrawAddress(u)
                      /\ k < POOL_USERS - 2 =>
                           /\ NodeExists(Append(path, u))
                           /\ t.outputs[3].script_pubkey = P2tr(LookupNode(Append(path, u)))
        /\ \A n \in StoredNodes : n \in nodes

\* C2 witness: the built tree of four participants holds the node reached by
\* the exits 3 then 1, with leaves for 0 and 2.
C2_Witness ==
  /\ TreeBuilt
  /\ POOL_USERS = 4
  /\ NodeExists(<<3, 1>>)
  /\ Len(LookupNode(<<3, 1>>).leaves) = 2
  /\ CommittedTemplate(<<3, 1>>, 2).outputs[1].script_pubkey = WithdrawAddress(2)

\* The settlement transactions the node accepted, in order (the chain starts
\* with the initial wallet transaction and the pool funding transaction).
AcceptedSettlements == SubSeq(chain, 3, Len(chain))

\* C3 (terminal reachability): walking the built tree along any exit order,
\* the node reached after k exits is terminal exactly when k = N-2, so the
\* (N-1)-th step is the terminal one; and in the run the node never accepts
\* more than N-1 settlement steps, the k-th accepted step is terminal exactly
\* when k = N-1, and the run is done exactly when N-1 steps were accepted.
C3_TerminalReachability ==
  /\ TreeBuilt =>
       \A k \in 0 .. (POOL_USERS - 2) : \A path \in Paths(k) : \A u \in Remaining(path) :
         IsTerminalTemplate(CommittedTemplate(path, u)) <=> (k = POOL_USERS - 2)
  /\ Len(AcceptedSettlements) <= POOL_USERS - 1
  /\ i = Len(AcceptedSettlements)
  /\ \A k \in 1 .. Len(AcceptedSettlements) :
       IsTerminalTemplate(TemplateHash(AcceptedSettlements[k], 0)) <=> (k = POOL_USERS - 1)
  /\ (pc = "done") <=> (Len(AcceptedSettlements) = POOL_USERS - 1)

\* C3 witness: a run of four participants that is done after three accepted
\* steps.
C3_Witness ==
  /\ pc = "done"
  /\ POOL_USERS = 4
  /\ Len(AcceptedSettlements) = 3

\* The children of a node: the nodes one layer down that are keyed by an
\* extension of its path and to whose address one of its leaves pays.  (Two
\* nodes reached by the same exits in another order hold the same leaves, so
\* the address alone does not tell them apart.)
ChildrenOf(d, key) ==
  {c \in DOMAIN pools[d] :
     /\ SubSeq(c, 1, Len(c) - 1) = PathOfKey(d, key)
     /\ \E k \in 1 .. Len(pools[d + 1][key].leaves) :
          \E j \in 1 .. Len(ScriptDigest(pools[d + 1][key].leaves[k]).outputs) :
            ScriptDigest(pools[d + 1][key].leaves[k]).outputs[j].script_pubkey
              = P2tr(pools[d][c])}

\* The nodes above the terminal layer.
InnerNodes == {n \in StoredNodes : n[1] > 0}

\* C10 as stated: every node at depth d > 0 has exactly N-d children, one
\* per participant not in its path, each keyed by the path extended by that
\* participant.
C10_Original ==
  TreeBuilt =>
    \A n \in InnerNodes :
      LET children == ChildrenOf(n[1], n[2])
      IN  /\ Cardinality(children) = POOL_USERS - n[1]
          /\ children =
               {Append(PathOfKey(n[1], n[2]), u) : u \in Remaining(PathOfKey(n[1], n[2]))}

\* C10 (tree shape, amended): every node at depth d > 0 has exactly d+2
\* children (N minus the length of its path), one per participant not in its
\* path, each keyed by the path extended by that participant; for N = 3 the
\* root has 3 children.
C10_TreeShape ==
  TreeBuilt =>
    /\ \A n \in InnerNodes :
         LET children == ChildrenOf(n[1], n[2])
         IN  /\ Cardinality(children) = n[1] + 2
             /\ Cardinality(children) = POOL_USERS - Len(PathOfKey(n[1], n[2]))
             /\ children =
                  {Append(PathOfKey(n[1], n[2]), u) : u \in Remaining(PathOfKey(n[1], n[2]))}
    /\ POOL_USERS = 3 => Cardinality(ChildrenOf(1, RootKey)) = 3

\* C10 witness: the built tree of three participants, whose root at depth 1
\* has the children [0], [1], [2].
C10_Witness ==
  /\ TreeBuilt
  /\ POOL_USERS = 3
  /\ ChildrenOf(1, RootKey) = {<<0>>, <<1>>, <<2>>}

LastLogged == rpc_log[Len(rpc_log)]

IsPoolStep(e) == e.kind \in {"pool_funding", "settlement"}

\* C6 as stated: nothing is signed or broadcast before the whole tree is built.
C6_Original == (rpc_log # <<>>) => TreeBuilt

C6_State ==
  /\ \A k \in 1 .. Len(rpc_log) :
       /\ IsPoolStep(rpc_log[k]) => TreeBuilt
       /\ (rpc_log[k].kind = "init_wallet") <=> (k = 1)
       /\ (rpc_log[k].kind = "pool_funding") <=> (k = 2)
       /\ rpc_log[k].kind = "pool_funding" =>
            rpc_log[k].tx.output =
              <<TxOut(AMOUNT_PER_USER * POOL_USERS, P2tr(pools[POOL_USERS - 1][RootKey]))>>
       /\ rpc_log[k].kind = "settlement" => rpc_log[2].accepted
  /\ pool_funding_txid # NoTxid =>
       /\ Len(rpc_log) >= 2
       /\ chain[pool_funding_txid] = rpc_log[2].tx

C6_Step ==
  /\ TreeBuilt => pools' = pools
  /\ Len(rpc_log') > Len(rpc_log) =>
       IF rpc_log'[Len(rpc_log')].kind = "init_wallet"
       THEN pools = <<>>
       ELSE TreeBuilt

\* C6 (tree before the pool goes on chain, amended): the initial wallet
\* transaction of send_funding_transaction is signed and broadcast before any
\* layer is built; every other transaction (pool funding, settlement) is
\* signed or broadcast only once every layer including the root is built;
\* from then on the tree never changes; and the pool is funded by exactly one
\* transaction, whose only output pays AMOUNT_PER_USER * POOL_USERS to the
\* root node's address.
C6_TreeBeforePoolOnChain == [](C6_State) /\ [][C6_Step]_vars

\* C6 witness: the pool funding transaction was accepted, after the initial
\* wallet transaction, with the tree of four participants built.
C6_Witness ==
  /\ pool_funding_txid # NoTxid
  /\ POOL_USERS = 4
  /\ TreeBuilt
  /\ rpc_log[1].kind = "init_wallet"
  /\ rpc_log[2].accepted

LastRejected == rpc_log # <<>> /\ IsPoolStep(LastLogged) /\ ~LastLogged.accepted

\* C7 as stated: after a rejected pool funding or settlement broadcast the
\* same step can be issued again.
C7_Original == LastRejected => ENABLED (SimulatePsbtSigning \/ ProcessPoolSpend)

C7_Step ==
  LET issued == Len(rpc_log') = Len(rpc_log) + 1
      last == rpc_log'[Len(rpc_log')]
  IN  /\ (issued /\ IsPoolStep(last) /\ ~last.accepted) =>
           /\ current_txid' = current_txid
           /\ i' = i
           /\ chain' = chain
           /\ pool_funding_txid' = pool_funding_txid
           /\ pc' \in {"error_pool_funding", "error_settlement"}
      /\ (current_txid' # current_txid \/ i' # i) =>
           (issued /\ IsPoolStep(last) /\ last.accepted)

\* C7 (failed broadcast, amended): when the node rejects the pool funding
\* transaction or a settlement transaction, the current outpoint and the
\* exited participants keep their values and the run ends with the error: no
\* step is issued again; the state advances only on acceptance.
C7_RejectionEndsRun ==
  /\ [](LastRejected => (pc \in {"error_pool_funding", "error_settlement"} /\ ~ENABLED Next))
  /\ [][C7_Step]_vars

\* C7 witness: the second settlement step was rejected after the first was
\* accepted.
C7_Witness ==
  /\ pc = "error_settlement"
  /\ i = 1
  /\ Len(SettlementLog) = 2
  /\ ~SettlementLog[2].accepted

\* C8 (sequential settlement): the first settlement step spends output 0 of
\* the pool funding transaction; every later step is issued only after the
\* step before it was accepted and spends the pool output of exactly that
\* transaction; no two steps handed to the node spend the same outpoint; and
\* the Settlement State is the count of accepted steps together with the id
\* of the last accepted transaction.
C8_SequentialSettlement ==
  LET S == SettlementLog
      spent(k) == S[k].tx.input[1].previous_output
  IN  /\ \A k \in 1 .. Len(S) :
           /\ Len(S[k].tx.input) = 1
           /\ k = 1 =>
                /\ pool_funding_txid # NoTxid
                /\ spent(k) = <<pool_funding_txid, 0>>
           /\ k > 1 =>
                /\ S[k - 1].accepted
                /\ spent(k)[1] \in 1 .. Len(chain)
                /\ chain[spent(k)[1]] = S[k - 1].tx
                /\ OutputAt(spent(k)).script_pubkey[1] = "p2tr"
      /\ \A j, k \in 1 .. Len(S) : j # k => spent(j) # spent(k)
      /\ i = Cardinality({k \in 1 .. Len(S) : S[k].accepted})
      /\ current_txid = IF i = 0 THEN pool_funding_txid ELSE Len(chain)
      /\ i > 0 => chain[current_txid] = S[i].tx

\* C8 witness: three settlement steps accepted one after the other.
C8_Witness ==
  /\ i = 3
  /\ Len(SettlementLog) = 3
  /\ SettlementLog[3].tx.input[1].previous_output = <<current_txid - 1, 2>>

\* The outputs the example of three participants expects of the step
\* "participant 0 exits" at the root.
ExampleFirstExitOutputs ==
  << TxOut(AMOUNT_PER_USER - FEE_AMOUNT, WithdrawAddress(0)),
     TxOut(FEE_AMOUNT, anchor_addr),
     TxOut(2 * AMOUNT_PER_USER - FEE_AMOUNT, P2tr(pools[1][<<0>>])) >>

\* The addresses a transaction pays, in the order of its outputs.
PaidAddresses(tx) == [k \in 1 .. Len(tx.output) |-> tx.output[k].script_pubkey]

\* C11 (worked example, N = 3): with three participants 0, 1, 2 (A, B, C),
\* share S, fee F and S > F + D, the root is funded with 3S; the leaf of the
\* root for "0 exits" commits, and the resolver's first step produces, the
\* outputs S-F to 0's address, F to the fee anchor and 2S-F to the address of
\* the node keyed [0], in that order; the step "1 exits" from [0] is the
\* terminal step: it pays 1 (S-F) and 2, pays no pool node, and ends the run.
C11_WorkedExample ==
  POOL_USERS = 3 =>
    /\ TreeBuilt =>
         /\ AMOUNT_PER_USER > FEE_AMOUNT + DUST_AMOUNT
         /\ NodeInputValue(<<>>) = 3 * AMOUNT_PER_USER
         /\ CommittedTemplate(<<>>, 0).outputs = ExampleFirstExitOutputs
         /\ ResolverOutputs(<<>>, 0, 3 * AMOUNT_PER_USER) = ExampleFirstExitOutputs
         /\ DepthOf(<<0>>) = 0
         /\ IsTerminalTemplate(CommittedTemplate(<<0>>, 1))
    /\ pool_funding_txid # NoTxid =>
         chain[pool_funding_txid].output[1].value = 3 * AMOUNT_PER_USER
    /\ Len(SettlementLog) >= 1 =>
         /\ SettlementLog[1].tx.output = ExampleFirstExitOutputs
         /\ SettlementLog[1].tx.input[1].previous_output = <<pool_funding_txid, 0>>
    /\ Len(SettlementLog) >= 2 =>
         /\ SettlementLog[2].tx.input[1].previous_output[2] = 2
         /\ chain[SettlementLog[2].tx.input[1].previous_output[1]].output
              = ExampleFirstExitOutputs
         /\ PaidAddresses(SettlementLog[2].tx) =
              <<WithdrawAddress(1), WithdrawAddress(2), anchor_addr>>
         /\ SettlementLog[2].tx.output[1].value = AMOUNT_PER_USER - FEE_AMOUNT
         /\ SumValues(SettlementLog[2].tx.output) =
              2 * AMOUNT_PER_USER - 2 * FEE_AMOUNT
         /\ SettlementLog[2].accepted => pc = "done"

\* C11 witness: the run of three participants is done, both steps accepted,
\* the first paying the continuation 2S-F to the node keyed [0].
C11_Witness ==
  /\ POOL_USERS = 3
  /\ pc = "done"
  /\ Len(SettlementLog) = 2
  /\ SettlementLog[2].accepted
  /\ chain[3].output[3] =
       TxOut(2 * AMOUNT_PER_USER - FEE_AMOUNT, P2tr(pools[1][<<0>>]))

\* C12 as stated: the node of every exit path is stored, keyed by the path,
\* in the layer at depth N-1-len(path), and every node stored at depth d is
\* keyed by a path of length N-1-d.
C12_Original ==
  TreeBuilt =>
    LET paths == StepPathsByLength
    IN  /\ \A k \in DOMAIN paths : \A path \in paths[k] :
             /\ (POOL_USERS - 1 - Len(path)) + 1 \in 1 .. Len(pools)
             /\ path \in DOMAIN pools[(POOL_USERS - 1 - Len(path)) + 1]
        /\ \A n \in StoredNodes : Len(n[2]) = POOL_USERS - 1 - n[1]

\* C12 (node lookup, amended): no resolver step fails to find its node.  The
\* node of an exit path is stored in the layer at depth N-2-len(path), under
\* the path itself, except the root (empty path), which is stored under the
\* key [0]; every node stored at depth d < N-2 is keyed by a path of N-2-d
\* distinct participants; the layer at depth N-2 holds the root alone and
\* the terminal layer is at depth 0, keyed by the paths of length N-2.
C12_NodeLookup ==
  /\ pc # "panic_resolution"
  /\ pc = "process_pool_spend" =>
       /\ TreeBuilt
       /\ (POOL_USERS - 2 - i) + 1 \in 1 .. Len(pools)
       /\ (IF i = 0 THEN <<0>> ELSE ExitedPath(i)) \in DOMAIN pools[(POOL_USERS - 2 - i) + 1]
  /\ TreeBuilt =>
       LET paths == StepPathsByLength
       IN  /\ \A k \in DOMAIN paths : \A path \in paths[k] :
                /\ (POOL_USERS - 2 - Len(path)) + 1 \in 1 .. Len(pools)
                /\ (IF path = <<>> THEN <<0>> ELSE path)
                     \in DOMAIN pools[(POOL_USERS - 2 - Len(path)) + 1]
           /\ \A n \in StoredNodes :
                n[1] < POOL_USERS - 2 =>
                  /\ Len(n[2]) = POOL_USERS - 2 - n[1]
                  /\ n[2] \in paths[POOL_USERS - 2 - n[1]]
           /\ DOMAIN pools[POOL_USERS - 1] = {<<0>>}
           /\ DOMAIN pools[1] = paths[POOL_USERS - 2]

\* C12 witness: the run of four participants is about to take its third
\* step, from the node of the path [0, 1] in the terminal layer.
C12_Witness ==
  /\ TreeBuilt
  /\ POOL_USERS = 4
  /\ pc = "process_pool_spend"
  /\ i = 2
  /\ <<0, 1>> \in DOMAIN pools[1]
  /\ DOMAIN pools[3] = {<<0>>}

\* The continuation addresses the leaves of a stored node commit to.
CommittedChildAddresses(d, key) ==
  {ScriptDigest(pools[d + 1][key].leaves[k]).outputs[3].script_pubkey :
     k \in 1 .. Len(pools[d + 1][key].leaves)}

\* The layer at depth d > 0 rests on the layer pushed before it: each of its
\* nodes commits to the addresses of exactly the nodes of depth d-1 keyed by
\* its path extended by a remaining participant, all of them stored.
LayerRestsOnLower(d) ==
  \A key \in DOMAIN pools[d + 1] :
    LET path == IF d = POOL_USERS - 2 THEN <<>> ELSE key
    IN  /\ \A u \in Remaining(path) : Append(path, u) \in DOMAIN pools[d]
        /\ CommittedChildAddresses(d, key) =
             {P2tr(pools[d][Append(path, u)]) : u \in Remaining(path)}
        /\ Len(pools[d + 1][key].leaves) = Cardinality(Remaining(path))

C13_State ==
  /\ Len(pools) <= POOL_USERS - 1
  /\ pc = "create_exit_pool" => pools = <<>>
  /\ pc = "create_all_pools" =>
       /\ Len(pools) = 1
       /\ DOMAIN pools[1] = Paths(POOL_USERS - 2)
       /\ \A key \in DOMAIN pools[1] : \A k \in 1 .. Len(pools[1][key].leaves) :
            IsTerminalTemplate(ScriptDigest(pools[1][key].leaves[k]))
  /\ pc = "create_entry_pool" =>
       /\ Len(pools) = POOL_USERS - 2
       /\ \A d \in 1 .. (POOL_USERS - 3) :
            /\ DOMAIN pools[d + 1] = Paths(POOL_USERS - 2 - d)
            /\ LayerRestsOnLower(d)
  /\ pc = "simulate_psbt_signing" =>
       /\ Len(pools) = POOL_USERS - 1
       /\ DOMAIN pools[POOL_USERS - 1] = {RootKey}
       /\ \A d \in 1 .. (POOL_USERS - 2) : LayerRestsOnLower(d)
  /\ pc \in {"process_pool_spend", "done", "panic_get_raw_transaction",
              "panic_no_funding_output", "panic_sign_pool_funding",
              "error_pool_funding", "error_settlement"} =>
       Len(pools) = POOL_USERS - 1
  /\ pc = "error_create_exit_pool" => pools = <<>>
  /\ pc = "panic_create_all_pools" => Len(pools) = 1
  /\ pc = "error_create_pool_address" => Len(pools) = POOL_USERS - 2

\* A build step only pushes layers on top of the layers already there.
C13_Step ==
  pools' # pools =>
    /\ Len(pools') > Len(pools)
    /\ SubSeq(pools', 1, Len(pools)) = pools

\* C13 (bottom-up build order): the layers are pushed in the order terminal
\* layer (depth 0), depths 1 .. N-3, root (depth N-2); a layer once pushed
\* is never changed; every node of a layer above the terminal one commits
\* only to addresses of nodes of the layer pushed just before it, which are
\* all there when it is compiled; and after the build the tree holds
\* exactly N-1 layers.
C13_BottomUpBuild == [](C13_State) /\ [][C13_Step]_vars

\* C13 witness: for five participants the layer of depth 1 stands on the
\* terminal layer, the layer of depth 2 on the layer of depth 1, and the
\* root is not built yet.
C13_Witness ==
  /\ pc = "create_entry_pool"
  /\ POOL_USERS = 5
  /\ Len(pools) = 3
  /\ DOMAIN pools[3] = {<<0>>, <<1>>, <<2>>, <<3>>, <<4>>}
  /\ <<2, 0>> \in DOMAIN pools[2]
  /\ <<2, 0, 4>> \in DOMAIN pools[1]
  /\ P2tr(pools[2][<<2, 0>>]) \in CommittedChildAddresses(2, <<2>>)
  /\ P2tr(pools[1][<<2, 0, 4>>]) \in CommittedChildAddresses(1, <<2, 0>>)
  /\ P2tr(pools[1][<<2, 0, 4>>]) \notin CommittedChildAddresses(2, <<2>>)

\* The pool funding transactions handed to the node.
IsPoolFunding(e) == e.kind = "pool_funding"

PoolFundingLog == SelectSeq(rpc_log, IsPoolFunding)

\* C14 (funding output is always located): whatever initial funding
\* transaction send_funding_transaction got accepted, simulate_psbt_signing
\* finds an output of it to spend, the output it spends is output 0 - the
\* one created to carry the pool's funds, not the change output - and the
\* pool funding transaction pays exactly AMOUNT_PER_USER * POOL_USERS to the
\* root address.
C14_FundingOutputLocated ==
  /\ pc # "panic_no_funding_output"
  /\ \A k \in 1 .. Len(PoolFundingLog) :
       /\ PoolFundingLog[k].tx.input[1].previous_output = <<init_wallets_txid, 0>>
       /\ PoolFundingLog[k].tx.output =
            <<TxOut(AMOUNT_PER_USER * POOL_USERS, P2tr(pools[POOL_USERS - 1][RootKey]))>>

\* The step in which the initial funding transaction is handed to the node.
FundingIssued ==
  /\ Len(rpc_log') = Len(rpc_log) + 1
  /\ rpc_log'[Len(rpc_log')].kind = "init_wallet"

C15_Step ==
  (FundingIssued /\ TotalInput(unspent) >= AMOUNT_PER_USER * POOL_USERS + fee') =>
    LET tx == rpc_log'[Len(rpc_log')].tx
    IN  /\ Len(tx.input) = Len(unspent)
        /\ \A k \in 1 .. Len(unspent) : tx.input[k].previous_output = <<-k, 0>>
        /\ Len(tx.output) = 2
        /\ tx.output[1].value + tx.output[2].value = TotalInput(unspent) - fee'

\* C15 (the initial funding transaction pays its estimated fee): whenever
\* the total input is at least AMOUNT_PER_USER * POOL_USERS + fee, the
\* transaction send_funding_transaction hands to the node spends every
\* listed unspent output and its two output values add up to the total
\* input minus the estimated fee.
C15_FundingPaysFee == [][C15_Step]_vars

\* C16 (insufficient funds are reported by the explicit check): once the fee
\* is estimated, a total input below AMOUNT_PER_USER * POOL_USERS + fee stops
\* send_funding_transaction at its check "Not enough input to cover outputs
\* and fee", with nothing signed or broadcast.
C16_ExplicitCheckReports ==
  (fee # NoFeeRate /\ total_input < AMOUNT_PER_USER * POOL_USERS + fee) =>
    /\ pc = "panic_not_enough_input"
    /\ rpc_log = <<>>
    /\ chain = <<>>

====
